---- MODULE Spec2Model ----
(***************************************************************************)
(* A model of the two logic fragments of the NetBox excerpt:               *)
(*   - extras/utils.py: the feature registry (register_features) and the   *)
(*     deferred content-type query (FeatureQuery);                         *)
(*   - extras/models/configcontexts.py: validation of ConfigContext.data   *)
(*     and ConfigContextModel.local_context_data, and the resolver         *)
(*     ConfigContextModel.get_config_context.                              *)
(***************************************************************************)
EXTENDS Integers, Sequences, FiniteSets, TLC

VARIABLES
    model_features,      \* registry['model_features']: feature -> app label -> set of model names
    queries,             \* the FeatureQuery objects constructed so far
    store,               \* the ConfigContext rows
    local_context_data,  \* the device's local_context_data column
    inst,                \* the device instance a request holds, or NoInst
    ret                  \* what the last operation returned or raised

vars == <<model_features, queries, store, local_context_data, inst, ret>>

NoError == ""
NoRet == [op |-> "none"]
NoInst == [loaded |-> FALSE]

(***************************************************************************)
(* JSON values as Python holds them after json.loads: a pair <<type, v>>.  *)
(***************************************************************************)
Null == <<"NoneType", 0>>
Bool(b) == <<"bool", b>>
Num(n) == <<"int", n>>
Str(s) == <<"str", s>>
Arr(s) == <<"list", s>>
Obj(f) == <<"dict", f>>

type(x) == x[1]
EmptyMap == [k \in {} |-> Null]
EmptyObj == Obj(EmptyMap)
keys(d) == DOMAIN d[2]
get(d, k) == d[2][k]

\* Python's truth value of a JSON value: None, False, 0, "", [] and {} are false.
Truthy(x) ==
    CASE type(x) = "NoneType" -> FALSE
      [] type(x) = "bool" -> x[2]
      [] type(x) = "int" -> x[2] # 0
      [] type(x) = "str" -> x[2] # ""
      [] type(x) = "list" -> Len(x[2]) > 0
      [] type(x) = "dict" -> DOMAIN x[2] # {}

(***************************************************************************)
(* The feature registry (extras/utils.py).                                 *)
(***************************************************************************)
EXTRAS_FEATURES == {"tags", "webhooks"}
\* Feature names a caller may pass, one of them outside EXTRAS_FEATURES.
FeatureNames == EXTRAS_FEATURES \cup {"bogus"}
\* model._meta.label_lower, already split at the dot: <<app_label, model_name>>.
Models == {<<"dcim", "site">>, <<"dcim", "device">>, <<"ipam", "vlan">>}
\* The content types a query is matched against: every model, registered or not.
ContentTypes == Models \cup {<<"ipam", "vrf">>}

MaxFeatures == 2

EmptyRegistry == [f \in EXTRAS_FEATURES |-> [a \in {} |-> {}]]

\* A faulty add: the bucket of the app label is overwritten, not extended.
AddReplacing(mf, feature, app_label, model_name) ==
    [mf EXCEPT ![feature] =
        [a \in DOMAIN @ \cup {app_label} |->
            IF a = app_label THEN {model_name} ELSE @[a]]]

\* registry['model_features'][feature][app_label].add(model_name), on a defaultdict(set)
AddModel(mf, feature, app_label, model_name) ==
    [mf EXCEPT ![feature] =
        [a \in DOMAIN @ \cup {app_label} |->
            IF a = app_label
            THEN (IF a \in DOMAIN @ THEN @[a] ELSE {}) \cup {model_name}
            ELSE @[a]]]

\* for feature in features: ... ; the loop from position i on.
RECURSIVE register_loop(_, _, _, _)
register_loop(mf, model, features, i) ==
    IF i > Len(features)
    THEN [model_features |-> mf, raised |-> NoError]
    ELSE IF features[i] \notin EXTRAS_FEATURES
         THEN [model_features |-> mf, raised |-> features[i]]
         ELSE register_loop(AddModel(mf, features[i], model[1], model[2]),
                            model, features, i + 1)

register_features(mf, model, features) == register_loop(mf, model, features, 1)

\* FeatureQuery.__init__: keeps the feature name and nothing of the registry.
FeatureQuery(feature) == [feature |-> feature]

\* FeatureQuery.get_query: Q() or-ed with one Q(app_label=..., model__in=...) per
\* item of the feature's bucket. A Q object is the set of its or-ed children;
\* Q() | q is q, so Q() is the empty set.
get_query(self, mf) ==
    {[app_label |-> a, model__in |-> mf[self.feature][a]] :
        a \in DOMAIN mf[self.feature]}

\* Whether filter(q) keeps content type ct. A Q object without children adds no
\* condition to the query, so it keeps every row.
QMatches(q, ct) ==
    IF q = {} THEN TRUE
    ELSE \E c \in q : ct[1] = c.app_label /\ ct[2] \in c.model__in

FeatureLists == UNION {[1..n -> FeatureNames] : n \in 0..MaxFeatures}

RegisterFeatures(model, features) ==
    LET r == register_features(model_features, model, features) IN
    /\ model_features' = r.model_features
    /\ ret' = [op |-> "register_features", model |-> model,
               features |-> features, raised |-> r.raised]
    /\ UNCHANGED <<queries, store, local_context_data, inst>>

ConstructFeatureQuery(feature) ==
    /\ queries' = queries \cup {FeatureQuery(feature)}
    /\ ret' = NoRet
    /\ UNCHANGED <<model_features, store, local_context_data, inst>>

CallFeatureQuery(self) ==
    /\ ret' = [op |-> "FeatureQuery.__call__", feature |-> self.feature,
               query |-> get_query(self, model_features)]
    /\ UNCHANGED <<model_features, queries, store, local_context_data, inst>>

Init ==
    /\ model_features = EmptyRegistry
    /\ queries = {}
    /\ store = {}
    /\ local_context_data = Null
    /\ inst = NoInst
    /\ ret = NoRet

NextRegistry ==
    \/ \E model \in Models, features \in FeatureLists : RegisterFeatures(model, features)
    \/ \E feature \in EXTRAS_FEATURES : ConstructFeatureQuery(feature)
    \/ \E self \in queries : CallFeatureQuery(self)

SpecRegistry == Init /\ [][NextRegistry]_vars

\* The (feature, app label, model name) entries of a registry.
Triples(mf) ==
    {t \in EXTRAS_FEATURES \X {m[1] : m \in ContentTypes} \X {m[2] : m \in ContentTypes} :
        t[2] \in DOMAIN mf[t[1]] /\ t[3] \in mf[t[1]][t[2]]}

\* The registry that holds exactly the entries ts.
FromTriples(ts) ==
    [f \in EXTRAS_FEATURES |->
        [a \in {t[2] : t \in {u \in ts : u[1] = f}} |->
            {t[3] : t \in {u \in ts : u[1] = f /\ u[2] = a}}]]

\* The entries a call register_features(model, features) asks for.
CallTriples(model, features) ==
    {<<features[i], model[1], model[2]>> : i \in 1..Len(features)}

\* C1: a call of register_features that raises leaves the registry exactly as it
\* was before the call: no entry is added for the valid names of the list.
C1_RaiseLeavesRegistryUntouched ==
    [][(ret'.op = "register_features" /\ ret'.raised # NoError)
        => model_features' = model_features]_vars

\* C4: the predicate an evaluation of FeatureQuery(feature) returns matches a
\* content type if and only if it is registered under that feature when the
\* query is evaluated.
C4_QueryMatchesExactlyRegistered ==
    ret.op = "FeatureQuery.__call__" =>
        \A ct \in ContentTypes :
            QMatches(ret.query, ct) <=> <<ret.feature, ct[1], ct[2]>> \in Triples(model_features)

\* C10: a successful call of register_features turns the registry into the one
\* that holds its former entries and the entries the call asks for: the registry
\* is a function of the set of entries registered, a repeated call changes
\* nothing, no entry is lost and nothing is added under another feature.
C10_RegistryIsSetOfEntries ==
    [][(ret'.op = "register_features" /\ ret'.raised = NoError)
        => model_features' = FromTriples(Triples(model_features)
                                \cup CallTriples(ret'.model, ret'.features))]_vars

\* C10 witness: a successful call for two features has added, in an app label that
\* already held another model, the entries of a model registered a second time.
C10_Witness ==
    /\ ret.op = "register_features"
    /\ ret.raised = NoError
    /\ ret.features = <<"tags", "webhooks">>
    /\ ret.model = <<"dcim", "site">>
    /\ Triples(model_features) =
        {<<"tags", "dcim", "site">>, <<"tags", "dcim", "device">>,
         <<"webhooks", "dcim", "site">>, <<"webhooks", "ipam", "vlan">>}


(***************************************************************************)
(* Config contexts (extras/models/configcontexts.py).                      *)
(***************************************************************************)
MaxContexts == 2

\* ConfigContext.name is unique; the names in lexicographic order.
NameSeq == <<"base", "override", "site", "tenant">>
ContextNames == {NameSeq[i] : i \in 1..MaxContexts}
NameRank(n) == CHOOSE i \in 1..Len(NameSeq) : NameSeq[i] = n
Weights == {1000, 2000}
\* The device is in site "s1"; a context is scoped to no site or to some sites.
DeviceSite == "s1"

\* A faulty clean: the test of ConfigContextModel.clean, which lets empty values pass.
ConfigContext_clean_truthy(data) ==
    IF Truthy(data) /\ type(data) # "dict" THEN "data" ELSE NoError

\* ConfigContext.clean: the field the ValidationError names, or NoError.
ConfigContext_clean(data) ==
    IF type(data) # "dict" THEN "data" ELSE NoError

\* ConfigContextModel.clean
ConfigContextModel_clean(local) ==
    IF Truthy(local) /\ type(local) # "dict" THEN "local_context_data" ELSE NoError

\* utilities.utils.deepmerge(original, new): nested mappings merge key by key,
\* every other value of new replaces the one of original.
RECURSIVE deepmerge(_, _)
deepmerge(original, new) ==
    Obj([k \in keys(original) \cup keys(new) |->
        IF k \notin keys(new) THEN get(original, k)
        ELSE IF k \in keys(original) /\ type(get(original, k)) = "dict"
                /\ type(get(new, k)) = "dict"
             THEN deepmerge(get(original, k), get(new, k))
             ELSE get(new, k)])

\* Meta.ordering = ['weight', 'name']
CtxLess(c, d) ==
    \/ c.weight < d.weight
    \/ c.weight = d.weight /\ NameRank(c.name) < NameRank(d.name)

RECURSIVE OrderBy(_)
OrderBy(S) ==
    IF S = {} THEN <<>>
    ELSE LET m == CHOOSE c \in S : \A d \in S \ {c} : CtxLess(c, d)
         IN <<m>> \o OrderBy(S \ {m})

\* The contexts whose scope matches the device: no scope matches everything.
Matching(rows) == {c \in rows : c.sites = {} \/ DeviceSite \in c.sites}

\* ConfigContext.objects.get_for_object(obj, aggregate_data=True): the data of
\* the matching contexts in the model's ordering.
get_for_object(rows) ==
    LET o == OrderBy(Matching(rows)) IN [i \in 1..Len(o) |-> o[i].data]

\* A faulty choice: an attribute that is None or empty falls back to the store.
select_inherited_fallback(self, rows) ==
    IF self.has_ccd /\ Truthy(self.config_context_data)
    THEN [list |-> self.config_context_data[2], store_queries |-> 0]
    ELSE [list |-> get_for_object(rows), store_queries |-> 1]

\* The conditional expression that picks the inherited documents, with the
\* number of store queries it makes: (self.config_context_data or []) when the
\* instance has the attribute, get_for_object otherwise.
select_inherited(self, rows) ==
    IF self.has_ccd
    THEN [list |-> IF Truthy(self.config_context_data)
                   THEN self.config_context_data[2] ELSE <<>>,
          store_queries |-> 0]
    ELSE [list |-> get_for_object(rows), store_queries |-> 1]

\* A faulty loop: the operands of deepmerge are swapped.
RECURSIVE merge_all_reversed(_, _, _)
merge_all_reversed(data, list, i) ==
    IF i > Len(list) THEN data
    ELSE merge_all_reversed(deepmerge(list[i], data), list, i + 1)

\* A faulty loop: each document is merged into a fresh mapping.
RECURSIVE merge_all_forgetful(_, _, _)
merge_all_forgetful(data, list, i) ==
    IF i > Len(list) THEN data
    ELSE merge_all_forgetful(deepmerge(EmptyObj, list[i]), list, i + 1)

\* for context in config_context_data: data = deepmerge(data, context)
RECURSIVE merge_all(_, _, _)
merge_all(data, list, i) ==
    IF i > Len(list) THEN data
    ELSE merge_all(deepmerge(data, list[i]), list, i + 1)

\* A faulty last step: the inherited data is merged over the local data.
merge_local_first(data, local) ==
    IF Truthy(local) THEN deepmerge(local, data) ELSE data

\* A faulty last step: local data that is not None replaces the result.
merge_local_assign(data, local) ==
    IF type(local) # "NoneType" THEN local ELSE data

\* if self.local_context_data: data = deepmerge(data, self.local_context_data)
merge_local(data, local) ==
    IF Truthy(local) THEN deepmerge(data, local) ELSE data

\* ConfigContextModel.get_config_context
get_config_context(self, local, rows) ==
    LET inherited == select_inherited(self, rows) IN
    [data |-> merge_local(merge_all(EmptyObj, inherited.list, 1), local),
     store_queries |-> inherited.store_queries]

(***************************************************************************)
(* Operations on config contexts.                                          *)
(***************************************************************************)
\* An administrator creates a context: full_clean, then save.
SaveContext(name, weight, sites, data) ==
    /\ inst = NoInst
    /\ \A c \in store : c.name # name
    /\ ConfigContext_clean(data) = NoError
    /\ store' = store \cup {[name |-> name, weight |-> weight, sites |-> sites, data |-> data]}
    /\ ret' = NoRet
    /\ UNCHANGED <<model_features, queries, local_context_data, inst>>

DeleteContext(c) ==
    /\ inst = NoInst
    /\ store' = store \ {c}
    /\ ret' = NoRet
    /\ UNCHANGED <<model_features, queries, local_context_data, inst>>

\* The device's local data is edited: full_clean, then save.
SaveLocal(local) ==
    /\ inst = NoInst
    /\ ConfigContextModel_clean(local) = NoError
    /\ local_context_data' = local
    /\ ret' = NoRet
    /\ UNCHANGED <<model_features, queries, store, inst>>

\* clean() alone, on a candidate value.
CleanContext(data) ==
    /\ ret' = [op |-> "ConfigContext.clean", value |-> data,
               error |-> ConfigContext_clean(data)]
    /\ UNCHANGED <<model_features, queries, store, local_context_data, inst>>

CleanLocal(local) ==
    /\ ret' = [op |-> "ConfigContextModel.clean", value |-> local,
               error |-> ConfigContextModel_clean(local)]
    /\ UNCHANGED <<model_features, queries, store, local_context_data, inst>>

\* A request loads the device without the config_context_data attribute.
Fetch ==
    /\ inst = NoInst
    /\ inst' = [loaded |-> TRUE, has_ccd |-> FALSE, config_context_data |-> Null, src |-> <<>>]
    /\ ret' = NoRet
    /\ UNCHANGED <<model_features, queries, store, local_context_data>>

\* A request loads the device and sets config_context_data to None.
FetchAnnotatedNone ==
    /\ inst = NoInst
    /\ inst' = [loaded |-> TRUE, has_ccd |-> TRUE, config_context_data |-> Null, src |-> <<>>]
    /\ ret' = NoRet
    /\ UNCHANGED <<model_features, queries, store, local_context_data>>

\* A request loads the device and sets config_context_data to the data of the
\* contexts src, in that order; src records where each document came from.
FetchAnnotated(src) ==
    /\ inst = NoInst
    /\ inst' = [loaded |-> TRUE, has_ccd |-> TRUE,
                config_context_data |-> Arr([i \in 1..Len(src) |-> src[i].data]),
                src |-> src]
    /\ ret' = NoRet
    /\ UNCHANGED <<model_features, queries, store, local_context_data>>

GetConfigContext ==
    /\ inst # NoInst
    /\ LET r == get_config_context(inst, local_context_data, store) IN
       ret' = [op |-> "get_config_context", data |-> r.data,
               store_queries |-> r.store_queries]
    /\ UNCHANGED <<model_features, queries, store, local_context_data, inst>>

\* The request ends.
Release ==
    /\ inst # NoInst
    /\ inst' = NoInst
    /\ ret' = NoRet
    /\ UNCHANGED <<model_features, queries, store, local_context_data>>

\* Every ordering of the set S as a sequence.
Orderings(S) ==
    {s \in [1..Cardinality(S) -> S] : \A i, j \in 1..Cardinality(S) : i # j => s[i] # s[j]}

IsSorted(src) == \A i, j \in 1..Len(src) : i < j => CtxLess(src[i], src[j])

(***************************************************************************)
(* Validation: clean() on every kind of JSON value.                        *)
(***************************************************************************)
Example == Obj([foo |-> Num(123)])

JsonValues ==
    {Null, Bool(FALSE), Bool(TRUE), Num(0), Num(1), Str(""), Str("x"),
     Arr(<<>>), Arr(<<Num(1)>>), Arr(<<Str("not"), Str("an"), Str("object")>>),
     EmptyObj, Example}

NextValidate ==
    \/ \E data \in JsonValues : CleanContext(data)
    \/ \E local \in JsonValues : CleanLocal(local)
    \/ \E name \in ContextNames, data \in JsonValues : SaveContext(name, 1000, {}, data)
    \/ \E local \in JsonValues : SaveLocal(local)

SpecValidate == Init /\ [][NextValidate]_vars

(***************************************************************************)
(* The resolver on documents that exercise each case of the merge.         *)
(***************************************************************************)
DocA == Obj([a |-> Num(1), b |-> Obj([x |-> Num(1)])])
DocB == Obj([b |-> Obj([y |-> Num(2)]), c |-> Num(3)])
LocalA9 == Obj([a |-> Num(9)])

MergeDocs ==
    {EmptyObj, DocA, DocB,
     Obj([b |-> EmptyObj]),                           \* an empty mapping over a mapping
     Obj([b |-> Obj([x |-> Arr(<<Num(5)>>)])]),       \* an array over a nested scalar
     Obj([b |-> Num(7)]),                             \* a scalar over a mapping, and under one
     Obj([b |-> Obj([x |-> Obj([z |-> Num(1)])])])}   \* a mapping two levels down

MergeLocals ==
    {Null, Arr(<<>>), EmptyObj, LocalA9,
     Obj([b |-> Obj([x |-> Num(3)])]), Obj([b |-> EmptyObj, c |-> Arr(<<Num(4)>>)])}

NextMerge ==
    \/ \E name \in ContextNames, weight \in Weights, data \in MergeDocs :
            SaveContext(name, weight, {}, data)
    \/ \E local \in MergeLocals : SaveLocal(local)
    \/ Fetch
    \/ FetchAnnotatedNone
    \/ \E src \in Orderings(Matching(store)) : FetchAnnotated(src)
    \/ GetConfigContext
    \/ Release

SpecMerge == Init /\ [][NextMerge]_vars

(***************************************************************************)
(* The resolver on weighted, scoped contexts that define the same key.     *)
(***************************************************************************)
OrderDocs == {Obj([k |-> Num(1)]), Obj([k |-> Arr(<<Num(2)>>)]), Obj([j |-> Num(3)])}
Scopes == {{}, {"s1"}, {"s2"}}

NextOrder ==
    \/ \E name \in ContextNames, weight \in Weights, sites \in Scopes, data \in OrderDocs :
            SaveContext(name, weight, sites, data)
    \/ \E c \in store : DeleteContext(c)
    \/ Fetch
    \/ FetchAnnotatedNone
    \/ \E src \in Orderings(Matching(store)) : FetchAnnotated(src)
    \/ GetConfigContext
    \/ Release

SpecOrder == Init /\ [][NextOrder]_vars

(***************************************************************************)
(* Properties of validation.                                               *)
(***************************************************************************)
\* C5: ConfigContext.clean raises a validation error for the field 'data' exactly
\* when data is not a JSON object; every mapping, the empty one too, passes.
C5_CleanRejectsExactlyNonObjects ==
    ret.op = "ConfigContext.clean" =>
        /\ ret.error \in {NoError, "data"}
        /\ ret.error = "data" <=> type(ret.value) # "dict"

\* C5 witness: the array ["not", "an", "object"] has been rejected for 'data'.
C5_Witness ==
    /\ ret.op = "ConfigContext.clean"
    /\ ret.value = Arr(<<Str("not"), Str("an"), Str("object")>>)
    /\ ret.error = "data"

\* C6: ConfigContextModel.clean raises a validation error for the field
\* 'local_context_data' for every value that is neither null nor a mapping.
C6_CleanLocalRejectsEveryNonObject ==
    (ret.op = "ConfigContextModel.clean" /\ type(ret.value) \notin {"NoneType", "dict"})
        => ret.error = "local_context_data"

(***************************************************************************)
(* Properties of the resolver.                                             *)
(***************************************************************************)
Max(S) == CHOOSE i \in S : \A j \in S : j <= i

\* The documents the call in progress inherits, in the order they were supplied:
\* those the precomputed list was built from, or the store's answer.
InheritedDocs ==
    IF inst.has_ccd THEN [i \in 1..Len(inst.src) |-> inst.src[i].data]
    ELSE get_for_object(store)

\* The merge of a sequence of mappings, key by key: the value of a key is that of
\* the last document defining it when that value is no mapping; otherwise it is
\* the merge of the mappings the key holds after the last non-mapping value.
RECURSIVE Merged(_)
Merged(docs) ==
    Obj([k \in UNION {keys(docs[i]) : i \in 1..Len(docs)} |->
        LET idx == {i \in 1..Len(docs) : k \in keys(docs[i])}
            plain == {i \in idx : type(get(docs[i], k)) # "dict"}
            r == IF plain = {} THEN 0 ELSE Max(plain)
            rest == {i \in idx : i > r}
            nth(n) == CHOOSE i \in rest : Cardinality({m \in rest : m < i}) = n - 1
        IN IF r = Max(idx) THEN get(docs[r], k)
           ELSE Merged([n \in 1..Cardinality(rest) |-> get(docs[nth(n)], k)])])

\* Every leaf of the mapping l is found, with l's value, at the same path of r.
RECURSIVE Covers(_, _)
Covers(l, r) ==
    /\ type(r) = "dict"
    /\ \A k \in keys(l) :
        /\ k \in keys(r)
        /\ IF type(get(l, k)) = "dict" THEN Covers(get(l, k), get(r, k))
           ELSE get(r, k) = get(l, k)

\* C2: with non-empty local data, every value the local data supplies is found
\* unchanged at the same path of the mapping get_config_context returns.
C2_LocalDataWins ==
    (ret.op = "get_config_context" /\ type(local_context_data) = "dict"
        /\ Truthy(local_context_data))
        => Covers(local_context_data, ret.data)

\* C2 witness: local b.x = 3 has replaced the inherited b.x = 1 of document A,
\* whose key a is kept.
C2_Witness ==
    /\ ret.op = "get_config_context"
    /\ local_context_data = Obj([b |-> Obj([x |-> Num(3)])])
    /\ ~inst.has_ccd
    /\ \E c \in store : c.data = DocA
    /\ ret.data = Obj([a |-> Num(1), b |-> Obj([x |-> Num(3)])])

\* C7: get_config_context returns a mapping; with null or empty local data it
\* returns what it returns for the same inherited documents and no local data,
\* and with no inherited documents either, the empty mapping.
C7_AlwaysAMapping ==
    ret.op = "get_config_context" =>
        /\ type(ret.data) = "dict"
        /\ ~Truthy(local_context_data) =>
              ret.data = get_config_context(inst, Null, store).data
        /\ (~Truthy(local_context_data) /\ Len(InheritedDocs) = 0) => ret.data = EmptyObj

\* C7 witness: the precomputed attribute is None, the local data is the empty
\* list, the store holds contexts, and the result is the empty mapping.
C7_Witness ==
    /\ ret.op = "get_config_context"
    /\ inst.has_ccd
    /\ inst.config_context_data = Null
    /\ local_context_data = Arr(<<>>)
    /\ store # {}
    /\ ret.data = EmptyObj

\* C8: get_config_context returns the merge of the inherited documents in order,
\* then of the local data: mappings at the same key merge key by key at every
\* depth, and a later scalar or array replaces the earlier value.
C8_ResultIsFoldOfDeepMerge ==
    ret.op = "get_config_context" =>
        ret.data = Merged(InheritedDocs \o
                          (IF type(local_context_data) = "dict"
                           THEN <<local_context_data>> ELSE <<>>))

\* C8 witness: contexts A (weight 1000) and B (weight 2000) from the store and
\* local {"a": 9} have given {"a": 9, "b": {"x": 1, "y": 2}, "c": 3}.
C8_Witness ==
    /\ ret.op = "get_config_context"
    /\ ~inst.has_ccd
    /\ store = {[name |-> "base", weight |-> 1000, sites |-> {}, data |-> DocA],
                [name |-> "override", weight |-> 2000, sites |-> {}, data |-> DocB]}
    /\ local_context_data = LocalA9
    /\ ret.data = Obj([a |-> Num(9), b |-> Obj([x |-> Num(1), y |-> Num(2)]), c |-> Num(3)])

\* The contexts whose documents the call in progress was given.
Applicable ==
    IF inst.has_ccd THEN {inst.src[i] : i \in 1..Len(inst.src)} ELSE Matching(store)

Greatest(S) == CHOOSE c \in S : \A d \in S \ {c} : CtxLess(d, c)

\* For every key that several applicable documents define with non-mapping
\* values, the result holds the value of the one greatest in (weight, name).
HighestWins ==
    \A k \in UNION {keys(d) : d \in OrderDocs} :
        LET defs == {c \in Applicable : k \in keys(c.data)} IN
        (Cardinality(defs) >= 2 /\ \A c \in defs : type(get(c.data, k)) # "dict")
            => /\ k \in keys(ret.data)
               /\ get(ret.data, k) = get(Greatest(defs).data, k)

C9_PathsAreExclusive ==
    ret.op = "get_config_context" =>
        /\ inst.has_ccd =>
            /\ ret.store_queries = 0
            /\ ret.data = Merged([i \in 1..Len(inst.src) |-> inst.src[i].data])
        /\ ~inst.has_ccd => ret.store_queries = 1

\* C9 witness: the attribute is None while the store holds a matching context;
\* no query was made and nothing was inherited.
C9_Witness ==
    /\ ret.op = "get_config_context"
    /\ inst.has_ccd
    /\ inst.config_context_data = Null
    /\ Matching(store) # {}
    /\ ret.store_queries = 0
    /\ ret.data = EmptyObj

====
